---- MODULE Spec2Model ----
(***************************************************************************)
(* Model of tag.go of golemu: the Tag value type, the CSV record codec,    *)
(* the TagReportData batcher (buildTagReportDataStack) and the tag index   *)
(* query (getIndexOfTag).                                                  *)
(*                                                                         *)
(* Go slices are 0-based; TLA+ sequences are 1-based.  Go's p.Stack[si]    *)
(* is Stack[si + 1] here, and getIndexOfTag's result is the Go index.      *)
(* Bytes are naturals in 0..255, strings are sequences of one-character    *)
(* strings.                                                                *)
(***************************************************************************)
EXTENDS Integers, Sequences, FiniteSets, TLC

VARIABLES
    \* buildTagReportDataStack
    tags,      \* the input slice
    pdu,       \* the value of the global *pdu
    Stack,     \* p.Stack
    si,        \* stack count (index of the current TRD)
    n,         \* number of tags the range loop has consumed
    pc,        \* "idle" | "loop" | "done"
    \* Tag.IsEqual and getIndexOfTag
    t,         \* the receiver of IsEqual, the target of getIndexOfTag
    tt,        \* the argument of IsEqual
    eq,        \* the result of t.IsEqual(tt)
    coll,      \* the slice getIndexOfTag searches
    qi,        \* number of elements the range loop has consumed
    index,     \* getIndexOfTag's local index
    found,     \* getIndexOfTag's result
    tpc,       \* "idle" | "start" | "search" | "done"
    \* loadTagsFromCSV
    input,     \* the records of the CSV text, in order
    rpos,      \* number of records the csv.Reader has returned
    fieldsPerRecord,   \* csv.Reader.FieldsPerRecord
    ltags,     \* the local tags
    lpc,       \* "idle" | "read" | "done" | "aborted"
    \* buildTag followed by Tag.InString
    record,    \* the record handed to buildTag
    built,     \* buildTag's result
    shown,     \* InString's result
    cpc        \* "idle" | "parse" | "built" | "rejected" | "done"

batchVars == <<tags, pdu, Stack, si, n, pc>>
tagVars   == <<t, tt, eq, coll, qi, index, found, tpc>>
loadVars  == <<input, rpos, fieldsPerRecord, ltags, lpc>>
codecVars == <<record, built, shown, cpc>>

vars == <<batchVars, tagVars, loadVars, codecVars>>

\* Tag{}
ZeroTag == [PCBits |-> 0, Length |-> 0, EPCLengthBits |-> 0, EPC |-> <<>>]

\* the components that are not running
BatchIdle ==
    tags = <<>> /\ pdu = 0 /\ Stack = <<>> /\ si = 0 /\ n = 0 /\ pc = "idle"
TagIdle ==
    /\ t = ZeroTag /\ tt = ZeroTag /\ eq = FALSE /\ coll = <<>>
    /\ qi = 0 /\ index = 0 /\ found = 0 /\ tpc = "idle"
LoadIdle ==
    input = <<>> /\ rpos = 0 /\ fieldsPerRecord = 0 /\ ltags = <<>> /\ lpc = "idle"
CodecIdle ==
    /\ record = <<>> /\ built = [err |-> FALSE, tag |-> ZeroTag]
    /\ shown = <<>> /\ cpc = "idle"

----------------------------------------------------------------------------
(* Bounds and input domains *)

\* longest tag slice handed to buildTagReportDataStack
MaxTags == 4

\* the offset for IP frame and ROAR headers
FramingOverhead == 100

Bytes12(b) == <<b, 1, 2, 3, 4, 5, 6, 7, 8, 9, 10, 11>>

\* Tags handed to the batcher: two 96-bit tags (20-byte parameter each), one
\* 128-bit tag (29 bytes) and one tag with an empty EPC (13 bytes).
BatchTags ==
    { [PCBits |-> 12288, Length |-> 18, EPCLengthBits |-> 96, EPC |-> Bytes12(226)],
      [PCBits |-> 12288, Length |-> 18, EPCLengthBits |-> 96, EPC |-> Bytes12(48)],
      [PCBits |-> 16384, Length |-> 22, EPCLengthBits |-> 128,
       EPC |-> Bytes12(226) \o <<12, 13, 14, 15>>],
      [PCBits |-> 0, Length |-> 6, EPCLengthBits |-> 0, EPC |-> <<>>] }

\* Values of *pdu: below a single parameter, just below and at a 20-byte
\* parameter plus overhead, and room for two parameters (126: two 13-byte
\* ones, 140: two 20-byte ones exactly, 150: two 20-byte ones with slack).
PduBudgets == {10, 119, 120, 126, 140, 150}

SeqsUpTo(S, k) == UNION { [1..m -> S] : m \in 0..k }

----------------------------------------------------------------------------
(* The external LLRP encoder (github.com/iomz/go-llrp) *)

Hi(x) == (x \div 256) % 256
Lo(x) == x % 256

\* llrp.C1G2PC: TV parameter, type 12, then the PC bits
C1G2PC(pcbits) == <<140, Hi(pcbits), Lo(pcbits)>>

\* llrp.EPCData: EPC-96 TV parameter (type 13) for 96-bit EPCs, EPCData TLV
\* parameter (type 241) otherwise
EPCData(length, epcLengthBits, epc) ==
    IF epcLengthBits = 96
    THEN <<141>> \o epc
    ELSE <<0, 241, Hi(length), Lo(length), Hi(epcLengthBits), Lo(epcLengthBits)>> \o epc

\* llrp.TagReportData: TLV parameter, type 240, wrapping both sub-parameters
TagReportData(epcd, aptd) ==
    LET l == Len(epcd) + Len(aptd) + 4
    IN  <<0, 240, Hi(l), Lo(l)>> \o epcd \o aptd

\* buildTagReportDataParameter
buildTagReportDataParameter(tag) ==
    LET epcd == EPCData(tag.Length, tag.EPCLengthBits, tag.EPC)
        aptd == C1G2PC(tag.PCBits)
    IN  TagReportData(epcd, aptd)

----------------------------------------------------------------------------
(* TagReportDataStack *)

RECURSIVE SumTagCounts(_, _)
SumTagCounts(stack, k) ==
    IF k = 0 THEN 0 ELSE SumTagCounts(stack, k - 1) + stack[k].TagCount

\* TagReportDataStack.TotalTagCounts
TotalTagCounts(stack) == SumTagCounts(stack, Len(stack))

----------------------------------------------------------------------------
(* buildTagReportDataStack *)

\* mutant: the overhead is left out of the comparison
OverflowsNoOverhead(stack, s, param, budget) ==
    Len(stack) # 0 /\ Len(stack[s + 1].Parameter) + Len(param) > budget

\* mutant: the comparison is >= instead of >
OverflowsAtLimit(stack, s, param, budget) ==
    Len(stack) # 0 /\ Len(stack[s + 1].Parameter) + Len(param) + FramingOverhead >= budget

\* the condition of line 158
Overflows(stack, s, param, budget) ==
    Len(stack) # 0 /\ Len(stack[s + 1].Parameter) + Len(param) + FramingOverhead > budget

\* &TagReportData{Parameter: param, TagCount: 1}
NewTRD(param) == [Parameter |-> param, TagCount |-> 1]

\* mutant: the stack count is not advanced
SameSi(s) == s

\* si++
NextSi(s) == s + 1

\* mutant: the parameter replaces the buffer instead of extending it
OverwriteTRD(stack, s, param) ==
    [stack EXCEPT ![s + 1] = [Parameter |-> param, TagCount |-> @.TagCount + 1]]

\* mutant: the tag count is not incremented
AppendTRDNoCount(stack, s, param) ==
    [stack EXCEPT ![s + 1] = [Parameter |-> @.Parameter \o param, TagCount |-> @.TagCount]]

\* p.Stack[si].Parameter = append(p.Stack[si].Parameter, param...); p.Stack[si].TagCount++
AppendTRD(stack, s, param) ==
    [stack EXCEPT ![s + 1] = [Parameter |-> @.Parameter \o param, TagCount |-> @.TagCount + 1]]

\* the call: tags and *pdu are chosen, the locals are the zero values
BatchInit ==
    /\ tags \in SeqsUpTo(BatchTags, MaxTags)
    /\ pdu \in PduBudgets
    /\ Stack = <<>>
    /\ si = 0
    /\ n = 0
    /\ pc = "loop"
    /\ TagIdle /\ LoadIdle /\ CodecIdle

\* loop body, lines 158-161: the parameter does not fit, a new TRD is pushed
OpenNext ==
    /\ pc = "loop" /\ n < Len(tags)
    /\ LET param == buildTagReportDataParameter(tags[n + 1])
       IN  /\ Overflows(Stack, si, param, pdu)
           /\ Stack' = Append(Stack, NewTRD(param))
           /\ si' = NextSi(si)
    /\ n' = n + 1
    /\ UNCHANGED <<tags, pdu, pc, tagVars, loadVars, codecVars>>

\* loop body, lines 163-166: the first TRD
OpenFirst ==
    /\ pc = "loop" /\ n < Len(tags)
    /\ LET param == buildTagReportDataParameter(tags[n + 1])
       IN  /\ ~Overflows(Stack, si, param, pdu)
           /\ Len(Stack) = 0
           /\ Stack' = <<NewTRD(param)>>
    /\ n' = n + 1
    /\ UNCHANGED <<tags, pdu, si, pc, tagVars, loadVars, codecVars>>

\* loop body, lines 168-170: the parameter is appended to the current TRD
AppendCurrent ==
    /\ pc = "loop" /\ n < Len(tags)
    /\ LET param == buildTagReportDataParameter(tags[n + 1])
       IN  /\ ~Overflows(Stack, si, param, pdu)
           /\ Len(Stack) # 0
           /\ Stack' = AppendTRD(Stack, si, param)
    /\ n' = n + 1
    /\ UNCHANGED <<tags, pdu, si, pc, tagVars, loadVars, codecVars>>

\* return p
BatchReturn ==
    /\ pc = "loop" /\ n = Len(tags)
    /\ pc' = "done"
    /\ UNCHANGED <<tags, pdu, Stack, si, n, tagVars, loadVars, codecVars>>

BatchNext == OpenNext \/ OpenFirst \/ AppendCurrent \/ BatchReturn

Spec == BatchInit /\ [][BatchNext]_vars

----------------------------------------------------------------------------
(* Properties of buildTagReportDataStack *)

\* the tags the loop has consumed
RECURSIVE EncodeAll(_)
EncodeAll(ts) ==
    IF ts = <<>> THEN <<>>
    ELSE buildTagReportDataParameter(Head(ts)) \o EncodeAll(Tail(ts))

RECURSIVE Flatten(_)
Flatten(stack) ==
    IF stack = <<>> THEN <<>> ELSE Head(stack).Parameter \o Flatten(Tail(stack))

\* the number of input tags held by the batches before batch k
BatchStart(k) == SumTagCounts(Stack, k - 1)

\* the input tags held by batch k
BatchTagsOf(k) == SubSeq(tags, BatchStart(k) + 1, BatchStart(k) + Stack[k].TagCount)

ParamLen(tag) == Len(buildTagReportDataParameter(tag))

\* C1 (as stated): after every step of the fold, a batch whose buffer length
\* plus the 100-byte overhead exceeds the budget holds exactly one tag, and
\* that tag's own encoded parameter length exceeds the budget.
C1_Original ==
    pdu > 0 =>
        \A k \in 1..Len(Stack) :
            Len(Stack[k].Parameter) + 100 > pdu =>
                /\ Stack[k].TagCount = 1
                /\ ParamLen(tags[BatchStart(k) + 1]) > pdu

\* C1 (amended): after every step of the fold, a batch whose buffer length
\* plus the 100-byte overhead exceeds the budget holds exactly one tag, and
\* that tag's own encoded parameter length plus the 100-byte overhead
\* exceeds the budget.
C1_SizeBound ==
    pdu > 0 =>
        \A k \in 1..Len(Stack) :
            Len(Stack[k].Parameter) + 100 > pdu =>
                /\ Stack[k].TagCount = 1
                /\ ParamLen(tags[BatchStart(k) + 1]) + 100 > pdu

\* a finished run with a conforming batch of several tags and a one-tag
\* batch that exceeds the budget only because of the overhead
C1_Witness ==
    /\ pc = "done"
    /\ \E k \in 1..Len(Stack) : Stack[k].TagCount >= 2 /\ Len(Stack[k].Parameter) + 100 <= pdu
    /\ \E k \in 1..Len(Stack) :
           /\ Stack[k].TagCount = 1
           /\ Len(Stack[k].Parameter) + 100 > pdu
           /\ Len(Stack[k].Parameter) <= pdu

\* C2: batching is order-preserving.  The buffers of the batches, concatenated
\* in stack order, are the encodings of the consumed tags concatenated in
\* input order, and every batch's buffer is the encoding of a contiguous run
\* of whole tags (TagCount of them), so no tag is dropped, duplicated,
\* reordered or split.
C2_OrderPreserving ==
    /\ Flatten(Stack) = EncodeAll(SubSeq(tags, 1, n))
    /\ \A k \in 1..Len(Stack) :
           /\ Stack[k].TagCount >= 1
           /\ BatchStart(k) + Stack[k].TagCount <= n
           /\ Stack[k].Parameter = EncodeAll(BatchTagsOf(k))

C2_Witness ==
    /\ pc = "done"
    /\ Len(Stack) >= 2
    /\ \E k \in 1..Len(Stack) : Stack[k].TagCount >= 2
    /\ \E i, j \in 1..Len(tags) : i < j /\ tags[i] # tags[j]
    /\ Flatten(Stack) = EncodeAll(tags)

\* C3: after any prefix of the input, TotalTagCounts is the number of tags
\* consumed so far; on return it is the number of input tags, and an empty
\* input gives an empty stack with total 0.
C3_TotalTagCounts ==
    /\ TotalTagCounts(Stack) = n
    /\ pc = "done" => TotalTagCounts(Stack) = Len(tags)
    /\ (pc = "done" /\ tags = <<>>) => (Stack = <<>> /\ TotalTagCounts(Stack) = 0)

C3_Witness ==
    /\ pc = "done"
    /\ Len(tags) >= 3
    /\ Len(Stack) >= 2
    /\ \E k \in 1..Len(Stack) : Stack[k].TagCount >= 2
    /\ TotalTagCounts(Stack) = Len(tags)

\* one iteration of the fold on a non-empty stack is greedy first-fit
C4_Step ==
    (n' = n + 1 /\ Len(Stack) # 0) =>
        LET param == buildTagReportDataParameter(tags[n + 1])
            last  == Len(Stack)
            cur   == Stack[last]
        IN  IF Len(cur.Parameter) + Len(param) + 100 <= pdu
            THEN Stack' = [Stack EXCEPT ![last] =
                              [Parameter |-> cur.Parameter \o param,
                               TagCount |-> cur.TagCount + 1]]
            ELSE Stack' = Append(Stack, [Parameter |-> param, TagCount |-> 1])

C4_Example ==
    (/\ pc = "done"
     /\ pdu = 150
     /\ Len(tags) = 3
     /\ \A k \in 1..3 : ParamLen(tags[k]) = 20)
        => [k \in 1..Len(Stack) |-> Stack[k].TagCount] = <<2, 1>>

\* C4: greedy first-fit on the current batch.  Every tag after the first is
\* appended to the last batch (TagCount incremented) iff buffer + parameter +
\* 100 <= budget, and otherwise opens a new last batch of its own with
\* TagCount 1; budget 150 and three 20-byte parameters give counts [2, 1].
C4_GreedyFirstFit == [][C4_Step]_vars /\ []C4_Example

C4_Witness ==
    /\ pc = "done"
    /\ pdu = 150
    /\ Len(tags) = 3
    /\ \A k \in 1..3 : ParamLen(tags[k]) = 20
    /\ Len(Stack) = 2
    /\ Stack[1].TagCount = 2
    /\ Stack[2].TagCount = 1

\* what a consumer reads off a batch without measuring its buffer
Reported(trd) == [f \in (DOMAIN trd) \ {"Parameter"} |-> trd[f]]

\* C5: a tag whose parameter plus overhead exceeds the budget sits alone in
\* its batch, and that batch is reported as non-conforming: what the result
\* says about it, apart from the buffer, differs from what it says about
\* every conforming batch.
C5_OversizedReported ==
    \A k \in 1..Len(Stack) :
        Len(Stack[k].Parameter) + 100 > pdu =>
            /\ Stack[k].TagCount = 1
            /\ \A j \in 1..Len(Stack) :
                   Len(Stack[j].Parameter) + 100 <= pdu =>
                       Reported(Stack[j]) # Reported(Stack[k])

C10_Frame ==
    /\ Len(Stack') >= Len(Stack)
    /\ \A k \in 1..Len(Stack) :
           (k < Len(Stack) \/ Len(Stack') > Len(Stack)) => Stack'[k] = Stack[k]

\* C10: only the last batch is ever modified.  A step never removes a batch,
\* leaves every batch but the last as it was, leaves the last one as it was
\* too when it opens a new batch, and si is the index of the last batch
\* whenever the stack is non-empty.
C10_OnlyLastModified ==
    [][C10_Frame]_vars /\ [](Len(Stack) # 0 => si = Len(Stack) - 1)

\* a later batch has been extended after an earlier one was closed
C10_Witness ==
    /\ Len(Stack) >= 2
    /\ Stack[1].TagCount >= 2
    /\ Stack[Len(Stack)].TagCount >= 2
    /\ si = Len(Stack) - 1

----------------------------------------------------------------------------
(* Tag.IsEqual, Tag.IsDuplicate, getIndexOfTag *)

\* longest slice handed to getIndexOfTag
MaxColl == 2

\* tags that differ in every field independently
TagDomain ==
    [PCBits : {0, 12288}, Length : {0, 1}, EPCLengthBits : {96, 128},
     EPC : {<<1>>, <<2>>, <<1, 2>>}]

\* the tags of the searched slices
CollTags ==
    [PCBits : {0, 12288}, Length : {0}, EPCLengthBits : {96},
     EPC : {<<1>>, <<2>>, <<1, 2>>}]

\* bytes.Equal
BytesEqual(a, b) == a = b

\* Tag.IsEqual; the third conjunct compares tt.EPCLengthBits with itself
IsEqual(x, y) ==
    /\ x.PCBits = y.PCBits
    /\ x.Length = y.Length
    /\ y.EPCLengthBits = y.EPCLengthBits
    /\ BytesEqual(x.EPC, y.EPC)

\* mutant: the control bits are compared too
IsDuplicateWithPC(x, y) == x.PCBits = y.PCBits /\ BytesEqual(x.EPC, y.EPC)

\* Tag.IsDuplicate
IsDuplicate(x, y) == BytesEqual(x.EPC, y.EPC)

TagInit ==
    /\ t \in TagDomain
    /\ coll \in SeqsUpTo(CollTags, MaxColl)
    /\ tt = ZeroTag
    /\ eq = FALSE
    /\ qi = 0
    /\ index = 0
    /\ found = 0
    /\ tpc = "start"
    /\ BatchIdle /\ LoadIdle /\ CodecIdle

\* eq := t.IsEqual(tt), for some tt
CallIsEqual ==
    /\ tpc = "start"
    /\ \E x \in TagDomain : tt' = x /\ eq' = IsEqual(t, x)
    /\ tpc' = "search"
    /\ UNCHANGED <<t, coll, qi, index, found, batchVars, loadVars, codecVars>>

\* getIndexOfTag, loop body: the element is a duplicate of t, return index
ScanHit ==
    /\ tpc = "search" /\ qi < Len(coll)
    /\ IsDuplicate(coll[qi + 1], t)
    /\ found' = index
    /\ tpc' = "done"
    /\ UNCHANGED <<t, tt, eq, coll, qi, index, batchVars, loadVars, codecVars>>

\* getIndexOfTag, loop body: not a duplicate, index++
ScanMiss ==
    /\ tpc = "search" /\ qi < Len(coll)
    /\ ~IsDuplicate(coll[qi + 1], t)
    /\ index' = index + 1
    /\ qi' = qi + 1
    /\ UNCHANGED <<t, tt, eq, coll, found, tpc, batchVars, loadVars, codecVars>>

\* getIndexOfTag, after the loop: return -1
ScanEnd ==
    /\ tpc = "search" /\ qi = Len(coll)
    /\ found' = -1
    /\ tpc' = "done"
    /\ UNCHANGED <<t, tt, eq, coll, qi, index, batchVars, loadVars, codecVars>>

TagNext == CallIsEqual \/ ScanHit \/ ScanMiss \/ ScanEnd

SpecTag == TagInit /\ [][TagNext]_vars

\* C6: IsEqual is structural equality over all four fields: the result is
\* true iff PCBits, Length, EPCLengthBits and the EPC bytes are all equal
\* (so tags that differ only in EPCLengthBits are not equal), and it is
\* symmetric.
C6_IsEqualStructural ==
    tpc # "start" =>
        /\ eq <=> (/\ t.PCBits = tt.PCBits
                   /\ t.Length = tt.Length
                   /\ t.EPCLengthBits = tt.EPCLengthBits
                   /\ t.EPC = tt.EPC)
        /\ IsEqual(tt, t) <=> eq

\* the Go indices of the elements of coll with t's EPC bytes
Matches == { i \in 0..(Len(coll) - 1) : coll[i + 1].EPC = t.EPC }

C9_Result ==
    tpc = "done" =>
        /\ found = -1 <=> Matches = {}
        /\ Matches # {} => (found \in Matches /\ \A i \in Matches : found <= i)

\* C9: getIndexOfTag returns the smallest index whose tag has t's EPC bytes,
\* whatever the other three fields are, returns -1 iff no tag has that EPC,
\* and leaves the searched collection unchanged.
C9_GetIndexOfTag == []C9_Result /\ [][coll' = coll]_vars

\* found at a later index, on a tag that differs from t outside the EPC,
\* after an element with another EPC
C9_Witness ==
    /\ tpc = "done"
    /\ found = 1
    /\ coll[2].EPC = t.EPC
    /\ coll[2] # t
    /\ coll[1].EPC # t.EPC

----------------------------------------------------------------------------
(* strconv and encoding/hex, as buildTag and InString use them *)

MaxUint16 == 65535

\* the value of a digit character; 99 for a character that is no digit of
\* any base up to 16
DigitVal(c) ==
    CASE c = "0" -> 0  [] c = "1" -> 1  [] c = "2" -> 2  [] c = "3" -> 3
      [] c = "4" -> 4  [] c = "5" -> 5  [] c = "6" -> 6  [] c = "7" -> 7
      [] c = "8" -> 8  [] c = "9" -> 9
      [] c \in {"a", "A"} -> 10  [] c \in {"b", "B"} -> 11
      [] c \in {"c", "C"} -> 12  [] c \in {"d", "D"} -> 13
      [] c \in {"e", "E"} -> 14  [] c \in {"f", "F"} -> 15
      [] OTHER -> 99

\* the loop of strconv.ParseUint: [err, val] after the characters of s
\* following the first k, with val accumulated so far
RECURSIVE ParseDigits(_, _, _, _, _)
ParseDigits(s, k, base, maxVal, acc) ==
    IF k > Len(s) THEN [err |-> FALSE, val |-> acc]
    ELSE LET d == DigitVal(s[k])
         IN  IF d >= base THEN [err |-> TRUE, val |-> 0]             \* ErrSyntax
             ELSE IF acc * base + d > maxVal
                  THEN [err |-> TRUE, val |-> maxVal]                \* ErrRange
                  ELSE ParseDigits(s, k + 1, base, maxVal, acc * base + d)

\* strconv.ParseUint(s, base, 16) for base 10 or 16
ParseUint16(s, base) ==
    IF s = <<>> THEN [err |-> TRUE, val |-> 0]                       \* ErrSyntax
    ELSE ParseDigits(s, 1, base, MaxUint16, 0)

LowerDigits == <<"0", "1", "2", "3", "4", "5", "6", "7", "8", "9",
                 "a", "b", "c", "d", "e", "f">>

\* strconv.FormatUint(v, base)
RECURSIVE FormatUint(_, _)
FormatUint(v, base) ==
    IF v < base THEN <<LowerDigits[v + 1]>>
    ELSE FormatUint(v \div base, base) \o <<LowerDigits[(v % base) + 1]>>

\* the bytes of hex.DecodeString for a string of valid digits of even length
RECURSIVE HexBytes(_)
HexBytes(s) ==
    IF Len(s) < 2 THEN <<>>
    ELSE <<DigitVal(s[1]) * 16 + DigitVal(s[2])>> \o HexBytes(SubSeq(s, 3, Len(s)))

\* hex.DecodeString: InvalidByteError or ErrLength, or the bytes
HexDecodeString(s) ==
    IF (\E k \in 1..Len(s) : DigitVal(s[k]) > 15) \/ Len(s) % 2 = 1
    THEN [err |-> TRUE, val |-> <<>>]
    ELSE [err |-> FALSE, val |-> HexBytes(s)]

\* hex.EncodeToString
RECURSIVE HexEncodeToString(_)
HexEncodeToString(bs) ==
    IF bs = <<>> THEN <<>>
    ELSE <<LowerDigits[(Head(bs) \div 16) + 1], LowerDigits[(Head(bs) % 16) + 1]>>
         \o HexEncodeToString(Tail(bs))

----------------------------------------------------------------------------
(* buildTag, Tag.InString *)

\* buildTag: [err, tag]; Tag{} with the error
buildTag(rec) ==
    IF Len(rec) # 4 THEN [err |-> TRUE, tag |-> ZeroTag]             \* io.EOF
    ELSE LET pc64     == ParseUint16(rec[1], 16)
             len64    == ParseUint16(rec[2], 10)
             epclen64 == ParseUint16(rec[3], 10)
             epc      == HexDecodeString(rec[4])
         IN  IF pc64.err \/ len64.err \/ epclen64.err \/ epc.err
             THEN [err |-> TRUE, tag |-> ZeroTag]
             ELSE [err |-> FALSE,
                   tag |-> [PCBits |-> pc64.val, Length |-> len64.val,
                            EPCLengthBits |-> epclen64.val, EPC |-> epc.val]]

\* mutant: the control bits are formatted in base 10
InStringDecimalPC(tag) ==
    [PCBits        |-> FormatUint(tag.PCBits, 10),
     Length        |-> FormatUint(tag.Length, 10),
     EPCLengthBits |-> FormatUint(tag.EPCLengthBits, 10),
     EPC           |-> HexEncodeToString(tag.EPC)]

\* Tag.InString
InString(tag) ==
    [PCBits        |-> FormatUint(tag.PCBits, 16),
     Length        |-> FormatUint(tag.Length, 10),
     EPCLengthBits |-> FormatUint(tag.EPCLengthBits, 10),
     EPC           |-> HexEncodeToString(tag.EPC)]

----------------------------------------------------------------------------
(* buildTag then InString on one four-field record *)

\* longest field built from the field alphabets
MaxFieldLen == 2

\* fields of the record: every string over a small alphabet up to
\* MaxFieldLen characters, and a few longer ones around the 16-bit limit
PCFields ==
    SeqsUpTo({"0", "A", "g"}, MaxFieldLen)
        \cup { <<"a">>, <<"f", "f", "f", "f">>, <<"1", "0", "0", "0", "0">> }
LengthFields ==
    SeqsUpTo({"0", "1"}, MaxFieldLen)
        \cup { <<"6", "5", "5", "3", "5">>, <<"6", "5", "5", "3", "6">> }
EPCLengthFields == SeqsUpTo({"0", "9"}, MaxFieldLen)
EPCFields == SeqsUpTo({"0", "B"}, MaxFieldLen) \cup { <<"g", "g">> }

CodecInit ==
    /\ record \in { <<a, b, c, d>> : a \in PCFields, b \in LengthFields,
                                     c \in EPCLengthFields, d \in EPCFields }
    /\ built = [err |-> FALSE, tag |-> ZeroTag]
    /\ shown = <<>>
    /\ cpc = "parse"
    /\ BatchIdle /\ TagIdle /\ LoadIdle

\* tag, err := buildTag(record), err == nil
CodecAccept ==
    /\ cpc = "parse"
    /\ ~buildTag(record).err
    /\ built' = buildTag(record)
    /\ cpc' = "built"
    /\ UNCHANGED <<record, shown, batchVars, tagVars, loadVars>>

\* tag, err := buildTag(record), err != nil
CodecReject ==
    /\ cpc = "parse"
    /\ buildTag(record).err
    /\ built' = buildTag(record)
    /\ cpc' = "rejected"
    /\ UNCHANGED <<record, shown, batchVars, tagVars, loadVars>>

\* tag.InString()
CodecInString ==
    /\ cpc = "built"
    /\ shown' = InString(built.tag)
    /\ cpc' = "done"
    /\ UNCHANGED <<record, built, batchVars, tagVars, loadVars>>

CodecNext == CodecAccept \/ CodecReject \/ CodecInString

SpecCodec == CodecInit /\ [][CodecNext]_vars

LowerChar(c) ==
    CASE c = "A" -> "a" [] c = "B" -> "b" [] c = "C" -> "c"
      [] c = "D" -> "d" [] c = "E" -> "e" [] c = "F" -> "f"
      [] OTHER -> c

\* a string with its hexadecimal digits in lower case
Lower(s) == [k \in 1..Len(s) |-> LowerChar(s[k])]

\* the four fields reproduce the record up to the case of hex digits
RoundTrips ==
    /\ Lower(shown.PCBits) = Lower(record[1])
    /\ shown.Length = record[2]
    /\ shown.EPCLengthBits = record[3]
    /\ Lower(shown.EPC) = Lower(record[4])

\* a numeral as FormatUint writes it: no zero in front of another digit
NoLeadingZero(s) == Len(s) = 1 \/ s[1] # "0"

\* C8 (as stated): for every four-field record buildTag accepts, InString
\* of the tag reproduces the four fields up to the case of hex digits.
C8_Original == cpc = "done" => RoundTrips

\* C8 (amended): for every four-field record buildTag accepts whose three
\* numeric fields are written without leading zeros, InString of the tag
\* reproduces the four fields up to the case of hex digits.
C8_RoundTrip ==
    (cpc = "done" /\ \A k \in 1..3 : NoLeadingZero(record[k])) => RoundTrips

\* a record with upper-case hex digits in the control bits and the EPC
C8_Witness ==
    /\ cpc = "done"
    /\ \A k \in 1..3 : NoLeadingZero(record[k])
    /\ record[1] = <<"A", "0">>
    /\ record[4] = <<"0", "B">>
    /\ shown.PCBits = <<"a", "0">>
    /\ shown.EPC = <<"0", "b">>

----------------------------------------------------------------------------
(* loadTagsFromCSV *)

\* most records in the CSV text
MaxRecords == 3

RecOk1 == << <<"1", "A">>, <<"1", "0">>, <<"9", "6">>, <<"A", "B">> >>
RecOk2 == << <<"3", "0", "0", "0">>, <<"1", "8">>, <<"9", "6">>, <<"0", "1", "f", "F">> >>
\* the row 1A,10
RecTwoFields == << <<"1", "A">>, <<"1", "0">> >>
RecFiveFields == RecOk1 \o << <<"0">> >>
RecBadPC == << <<"1", "G">>, <<"1", "0">>, <<"9", "6">>, <<"A", "B">> >>
RecBadLength == << <<"1", "A">>, <<"6", "5", "5", "3", "6">>, <<"9", "6">>, <<"A", "B">> >>
RecBadEPCLength == << <<"1", "A">>, <<"1", "0">>, <<>>, <<"A", "B">> >>
RecBadEPC == << <<"1", "A">>, <<"1", "0">>, <<"9", "6">>, <<"A", "B", "C">> >>

LoadRecords ==
    { RecOk1, RecOk2, RecTwoFields, RecFiveFields,
      RecBadPC, RecBadLength, RecBadEPCLength, RecBadEPC }

\* csv.Reader.Read with the default FieldsPerRecord of 0: the first record
\* sets the expected field count, a later record with another count comes
\* back with ErrFieldCount
csvFieldCountErr(rec, fpr) == fpr > 0 /\ Len(rec) # fpr

csvNextFieldsPerRecord(rec, fpr) == IF fpr = 0 THEN Len(rec) ELSE fpr

\* check(err), for an err that is not io.EOF: whether it ends the load
checkAborts(err) == FALSE

\* mutant: the tag is appended whatever buildTag returned
LoadStepNoContinue(acc, res) == Append(acc, res.tag)

\* lines 125-129: skip the record on an error, append the tag otherwise
LoadStep(acc, res) == IF res.err THEN acc ELSE Append(acc, res.tag)

LoadInit ==
    /\ input \in SeqsUpTo(LoadRecords, MaxRecords)
    /\ rpos = 0
    /\ fieldsPerRecord = 0
    /\ ltags = <<>>
    /\ lpc = "read"
    /\ BatchIdle /\ TagIdle /\ CodecIdle

\* one iteration of the loop with a record read
LoadRecord ==
    /\ lpc = "read" /\ rpos < Len(input)
    /\ LET rec == input[rpos + 1]
           err == csvFieldCountErr(rec, fieldsPerRecord)
       IN  /\ fieldsPerRecord' = csvNextFieldsPerRecord(rec, fieldsPerRecord)
           /\ IF checkAborts(err)
              THEN lpc' = "aborted" /\ ltags' = ltags
              ELSE lpc' = "read" /\ ltags' = LoadStep(ltags, buildTag(rec))
    /\ rpos' = rpos + 1
    /\ UNCHANGED <<input, batchVars, tagVars, codecVars>>

\* err == io.EOF: break, return tags
LoadEOF ==
    /\ lpc = "read" /\ rpos = Len(input)
    /\ lpc' = "done"
    /\ UNCHANGED <<input, rpos, fieldsPerRecord, ltags, batchVars, tagVars, codecVars>>

LoadNext == LoadRecord \/ LoadEOF

SpecLoad == LoadInit /\ [][LoadNext]_vars

\* the value of a numeral, by the weight of each position
RECURSIVE Pow(_, _)
Pow(b, e) == IF e = 0 THEN 1 ELSE b * Pow(b, e - 1)

RECURSIVE NumeralValue(_, _)
NumeralValue(s, base) ==
    IF s = <<>> THEN 0
    ELSE DigitVal(Head(s)) * Pow(base, Len(s) - 1) + NumeralValue(Tail(s), base)

IsUint16Numeral(s, base) ==
    /\ s # <<>>
    /\ \A k \in 1..Len(s) : DigitVal(s[k]) < base
    /\ NumeralValue(s, base) <= 65535

IsHexString(s) ==
    /\ Len(s) % 2 = 0
    /\ \A k \in 1..Len(s) : DigitVal(s[k]) < 16

\* a record of four fields that all parse
WellFormed(rec) ==
    /\ Len(rec) = 4
    /\ IsUint16Numeral(rec[1], 16)
    /\ IsUint16Numeral(rec[2], 10)
    /\ IsUint16Numeral(rec[3], 10)
    /\ IsHexString(rec[4])

\* the tag a well-formed record denotes
TagOf(rec) ==
    [PCBits        |-> NumeralValue(rec[1], 16),
     Length        |-> NumeralValue(rec[2], 10),
     EPCLengthBits |-> NumeralValue(rec[3], 10),
     EPC           |-> [k \in 1..(Len(rec[4]) \div 2) |->
                           NumeralValue(SubSeq(rec[4], 2 * k - 1, 2 * k), 16)]]

\* the tags of the well-formed records of recs, in order
RECURSIVE ExpectedTags(_)
ExpectedTags(recs) ==
    IF recs = <<>> THEN <<>>
    ELSE IF WellFormed(Head(recs))
         THEN <<TagOf(Head(recs))>> \o ExpectedTags(Tail(recs))
         ELSE ExpectedTags(Tail(recs))

====
